---- MODULE Spec2Model ----
(***************************************************************************)
(* typeologist (src/index.js): the font pipeline                           *)
(*   extractUrls -> filterUrlsByExtension -> testUrls -> selection ->      *)
(*   downloadFontFiles                                                     *)
(* with its two batched loops modelled at the granularity of the event     *)
(* loop: one action per synchronous run of code between two awaits.        *)
(* Strings whose characters matter (path names, extensions, file names)    *)
(* are tuples of one-character strings.                                    *)
(***************************************************************************)
EXTENDS Integers, Sequences, FiniteSets, TLC

VARIABLES
    argv,            \* parsed command line: help, formats, concurrency, blind
    pc,              \* position of the run
    exitReason,      \* why the process ended ("none" while it runs)
    selectedFormats, \* init: selectedFormats
    allUrls,         \* init: allUrls (result of extractUrls)
    fontUrls,        \* init: fontUrls (result of filterUrlsByExtension)
    accessibleUrls,  \* init: accessibleUrls (result of testUrls)
    selectedFonts,   \* init: selectedFonts (argument of downloadFontFiles)
    tUrls,           \* testUrls: urls
    tI,              \* testUrls: loop variable i
    tState,          \* testUrls: per item, position of its map callback
    tOutcome,        \* testUrls: per item, what the HEAD request did
    tValue,          \* testUrls: per item, settlement of its promise
    tResults,        \* testUrls: results
    tStarts,         \* testUrls: per item, number of times its callback started
    tChunks,         \* testUrls: number of batches started
    dUrls,           \* downloadFontFiles: urls
    dI,              \* downloadFontFiles: loop variable i
    dState,          \* downloadFontFiles: per item, position of its map callback
    dOutcome,        \* downloadFontFiles: per item, what fetch / write did
    dValue,          \* downloadFontFiles: per item, settlement of its promise
    dResults,        \* downloadFontFiles: results
    dStarts,         \* downloadFontFiles: per item, number of callback starts
    dChunks,         \* downloadFontFiles: number of batches started
    dirExists,       \* file system: OUTPUT_DIR exists
    files,           \* file system: the files of OUTPUT_DIR, [name, content]
    fs0,             \* the file system at the start of the run
    netLog,          \* requests issued so far, [method, url]
    writeLog         \* urls whose body was written, in the order of the writes

vars == << argv, pc, exitReason, selectedFormats, allUrls, fontUrls, accessibleUrls, selectedFonts,
           tUrls, tI, tState, tOutcome, tValue, tResults, tStarts, tChunks,
           dUrls, dI, dState, dOutcome, dValue, dResults, dStarts, dChunks,
           dirExists, files, fs0, netLog, writeLog >>

pipeVars == << selectedFormats, allUrls, fontUrls, accessibleUrls, selectedFonts >>
tVars == << tUrls, tI, tState, tOutcome, tValue, tResults, tStarts, tChunks >>
dVars == << dUrls, dI, dState, dOutcome, dValue, dResults, dStarts, dChunks >>
fsVars == << dirExists, files, writeLog >>

(***************************************************************************)
(* Bounds of the model.                                                    *)
(***************************************************************************)
\* longest url list handed to testUrls / downloadFontFiles
MaxUrls == 3
\* largest positive value of --concurrency
MaxConcurrency == 2
\* longest url list handed to filterUrlsByExtension on its own
MaxFilterUrls == 2
\* most urls extractUrls finds in a page
MaxPageUrls == 3

(***************************************************************************)
(* Strings as character tuples.                                            *)
(***************************************************************************)
Max(a, b) == IF a > b THEN a ELSE b

\* String.prototype.toLowerCase, on the characters the urls below use
LowerChar(c) ==
    CASE c = "W" -> "w"
      [] c = "O" -> "o"
      [] c = "F" -> "f"
      [] c = "T" -> "t"
      [] c = "E" -> "e"
      [] OTHER -> c

toLowerCase(s) == [k \in 1..Len(s) |-> LowerChar(s[k])]

endsWith(s, suffix) ==
    /\ Len(suffix) <= Len(s)
    /\ SubSeq(s, Len(s) - Len(suffix) + 1, Len(s)) = suffix

startsWith(s, prefix) ==
    /\ Len(prefix) <= Len(s)
    /\ SubSeq(s, 1, Len(prefix)) = prefix

\* pathname.split("/").pop(): what follows the last "/" (all of it when none)
LastSegment(pathname) ==
    LET slashes == {k \in 1..Len(pathname) : pathname[k] = "/"}
        last == IF slashes = {} THEN 0
                ELSE CHOOSE k \in slashes : \A m \in slashes : m <= k
    IN SubSeq(pathname, last + 1, Len(pathname))

(***************************************************************************)
(* The urls of the model, in the order Array.prototype.sort gives their    *)
(* hrefs. parses / pathname are what `new URL(href)` does with each.       *)
(***************************************************************************)
UrlTable == <<
    [href |-> "http://%/a.ttf", parses |-> FALSE, pathname |-> << >>],
    [href |-> "https://a.io/", parses |-> TRUE, pathname |-> <<"/">>],
    [href |-> "https://a.io/f/x.WOFF2?v=1", parses |-> TRUE,
     pathname |-> <<"/", "f", "/", "x", ".", "W", "O", "F", "F", "2">>],
    [href |-> "https://a.io/y.woff", parses |-> TRUE,
     pathname |-> <<"/", "y", ".", "w", "o", "f", "f">>],
    [href |-> "https://b.io/f/x.WOFF2", parses |-> TRUE,
     pathname |-> <<"/", "f", "/", "x", ".", "W", "O", "F", "F", "2">>],
    [href |-> "https://b.io/t.ttf/otf", parses |-> TRUE,
     pathname |-> <<"/", "t", ".", "t", "t", "f", "/", "o", "t", "f">>],
    [href |-> "https://b.io/z.Eot", parses |-> TRUE,
     pathname |-> <<"/", "z", ".", "E", "o", "t">>],
    [href |-> "https://c.io/f.otf", parses |-> TRUE,
     pathname |-> <<"/", "f", ".", "o", "t", "f">>] >>

AllUrlIds == 1..Len(UrlTable)
\* the urls the batched loops are run on
ExecUrlIds == {1, 2, 3, 4, 5}

Parses(u) == UrlTable[u].parses
Pathname(u) == UrlTable[u].pathname
Filename(u) == LastSegment(Pathname(u))

(***************************************************************************)
(* FONT_FORMATS and filterUrlsByExtension.                                 *)
(***************************************************************************)
woff2 == <<"w", "o", "f", "f", "2">>
woff == <<"w", "o", "f", "f">>
ttf == <<"t", "t", "f">>
otf == <<"o", "t", "f">>
eot == <<"e", "o", "t">>

FONT_FORMATS_NoEot == <<
    [name |-> "all", extensions |-> <<woff2, woff, ttf, otf>>],
    [name |-> "woff2", extensions |-> <<woff2>>],
    [name |-> "woff", extensions |-> <<woff>>],
    [name |-> "ttf", extensions |-> <<ttf>>],
    [name |-> "otf", extensions |-> <<otf>>],
    [name |-> "eot", extensions |-> <<eot>>] >>

FONT_FORMATS == <<
    [name |-> "all", extensions |-> <<woff2, woff, ttf, otf, eot>>],
    [name |-> "woff2", extensions |-> <<woff2>>],
    [name |-> "woff", extensions |-> <<woff>>],
    [name |-> "ttf", extensions |-> <<ttf>>],
    [name |-> "otf", extensions |-> <<otf>>],
    [name |-> "eot", extensions |-> <<eot>>] >>

validFormats == {FONT_FORMATS[k].name : k \in 1..Len(FONT_FORMATS)}

\* FONT_FORMATS.find((f) => f.name === formatName).extensions
FormatExtensions(formatName) ==
    LET k == CHOOSE k \in 1..Len(FONT_FORMATS) : FONT_FORMATS[k].name = formatName
    IN FONT_FORMATS[k].extensions

\* init: the extensions of the selected formats, concatenated in order
RECURSIVE Extensions(_)
Extensions(formatNames) ==
    IF formatNames = << >> THEN << >>
    ELSE (IF Head(formatNames) \in validFormats
          THEN FormatExtensions(Head(formatNames)) ELSE << >>)
         \o Extensions(Tail(formatNames))

normalizedExt(ext) == IF startsWith(ext, <<".">>) THEN ext ELSE <<".">> \o ext

\* the callback of urls.filter in filterUrlsByExtension
KeepsUrl(u, extensions) ==
    IF ~Parses(u) THEN FALSE
    ELSE LET lastSegment == LastSegment(Pathname(u))
         IN \E k \in 1..Len(extensions) :
                endsWith(toLowerCase(lastSegment),
                         toLowerCase(normalizedExt(extensions[k])))

filterUrlsByExtension(urls, extensions) ==
    SelectSeq(urls, LAMBDA u : KeepsUrl(u, extensions))

(***************************************************************************)
(* CONCURRENCY_LIMIT.                                                      *)
(* argv.concurrency is what mri leaves there: a number when the option is  *)
(* numeric (30 when it is absent, the default), else the string itself.    *)
(***************************************************************************)
\* mri's default for concurrency
MriDefaultConcurrency == 30
\* the fallback of `parseInt(argv.concurrency) || 30`
FallbackConcurrency == 30

NaN == [nan |-> TRUE, val |-> 0]
Num(n) == [nan |-> FALSE, val |-> n]

ConcurrencyValues ==
    {[kind |-> "number", n |-> k] : k \in (-1..MaxConcurrency) \cup {MriDefaultConcurrency}}
    \cup {[kind |-> "string", n |-> 0]}

\* parseInt of an integer number, or of a string with no leading digits
parseInt(v) == IF v.kind = "number" THEN Num(v.n) ELSE NaN

\* x || 30: NaN and 0 are falsy
OrFallback(x) == IF x.nan \/ x.val = 0 THEN FallbackConcurrency ELSE x.val

ConcurrencyLimitNoMax(concurrency) == OrFallback(parseInt(concurrency))

ConcurrencyLimit(concurrency) == Max(1, OrFallback(parseInt(concurrency)))

CONCURRENCY_LIMIT == ConcurrencyLimit(argv.concurrency)

(***************************************************************************)
(* The batched loops: what they share.                                     *)
(***************************************************************************)
\* the 1-based positions of urls.slice(i, i + limit) in a list of n urls
SliceIndicesOffByOne(n, i, limit) == {j \in 1..n : i < j /\ j <= i + limit + 1}

SliceIndices(n, i, limit) == {j \in 1..n : i < j /\ j <= i + limit}

\* results.push(...batchResults)
PushAllReversed(results, batchResults) == batchResults \o results

PushAll(results, batchResults) == results \o batchResults

\* the state of Promise.all over the promises at `batch`:
\* rejected as soon as one is, fulfilled once all are
PromiseRace(values, batch) ==
    IF \E j \in batch : values[j].kind = "rejected" THEN "rejected"
    ELSE IF \E j \in batch : values[j].kind = "fulfilled" THEN "fulfilled"
    ELSE "pending"

PromiseAll(values, batch) ==
    IF \E j \in batch : values[j].kind = "rejected" THEN "rejected"
    ELSE IF \A j \in batch : values[j].kind = "fulfilled" THEN "fulfilled"
    ELSE "pending"

Bump(counts, batch) ==
    [j \in 1..Len(counts) |-> IF j \in batch THEN counts[j] + 1 ELSE counts[j]]

(***************************************************************************)
(* testUrl and testUrls.                                                   *)
(***************************************************************************)
PendingProbe == [kind |-> "pending", accessible |-> FALSE]

\* what a HEAD request for u can do: fetch rejects a url that does not parse
HeadOutcomes(u) == IF Parses(u) THEN {"ok", "status", "error"} ELSE {"error"}

testUrlOkOnStatus(outcome) ==
    [kind |-> "fulfilled", accessible |-> (outcome # "error")]

\* testUrl: response.ok, false in the catch
testUrl(outcome) ==
    [kind |-> "fulfilled", accessible |-> (outcome = "ok")]

\* the loop of testUrls from its head, with i and results as given
TestLoop(urls, i, results) ==
    /\ tI' = i
    /\ tResults' = results
    /\ IF i < Len(urls)
       THEN LET batch == SliceIndices(Len(urls), i, CONCURRENCY_LIMIT)
            IN /\ tState' = [j \in 1..Len(urls) |->
                                IF j \in batch THEN "inflight"
                                ELSE IF i = 0 THEN "idle" ELSE tState[j]]
               /\ tStarts' = Bump(IF i = 0 THEN [j \in 1..Len(urls) |-> 0]
                                  ELSE tStarts, batch)
               /\ tChunks' = (IF i = 0 THEN 0 ELSE tChunks) + 1
               /\ netLog' = netLog \cup
                      {[method |-> "HEAD", url |-> urls[j]] :
                          j \in {b \in batch : Parses(urls[b])}}
               /\ pc' = "testUrls_await"
               /\ UNCHANGED accessibleUrls
       ELSE /\ tState' = (IF i = 0 THEN << >> ELSE tState)
            /\ tStarts' = (IF i = 0 THEN << >> ELSE tStarts)
            /\ tChunks' = (IF i = 0 THEN 0 ELSE tChunks)
            /\ accessibleUrls' =
                   LET accessible == SelectSeq(results, LAMBDA r : r.accessible)
                   IN [k \in 1..Len(accessible) |-> accessible[k].url]
            /\ pc' = "testUrls_returned"
            /\ UNCHANGED netLog

\* testUrls(fontUrls) up to its first await
TestUrlsCall ==
    /\ pc = "call_testUrls"
    /\ tUrls' = fontUrls
    /\ tOutcome' = [j \in 1..Len(fontUrls) |-> "none"]
    /\ tValue' = [j \in 1..Len(fontUrls) |-> PendingProbe]
    /\ TestLoop(fontUrls, 0, << >>)
    /\ UNCHANGED << argv, exitReason, selectedFormats, allUrls, fontUrls, selectedFonts,
                    dVars, fsVars, fs0 >>

\* the HEAD request of item j ends, and testUrl settles the item's promise
TestSettle(j, outcome) ==
    /\ pc = "testUrls_await"
    /\ j \in 1..Len(tUrls)
    /\ tState[j] = "inflight"
    /\ outcome \in HeadOutcomes(tUrls[j])
    /\ tOutcome' = [tOutcome EXCEPT ![j] = outcome]
    /\ tValue' = [tValue EXCEPT ![j] = testUrl(outcome)]
    /\ tState' = [tState EXCEPT ![j] = "settled"]
    /\ UNCHANGED << argv, pc, exitReason, pipeVars, tUrls, tI, tResults, tStarts,
                    tChunks, dVars, fsVars, fs0, netLog >>

\* the await of Promise.all ends: push the batch, advance i, next iteration
TestResume ==
    /\ pc = "testUrls_await"
    /\ LET batch == SliceIndices(Len(tUrls), tI, CONCURRENCY_LIMIT)
           all == PromiseAll(tValue, batch)
       IN /\ all # "pending"
          /\ IF all = "rejected"
             THEN /\ pc' = "rejected"
                  /\ UNCHANGED << tI, tResults, tState, tStarts, tChunks,
                                  accessibleUrls, netLog >>
             ELSE TestLoop(tUrls, tI + CONCURRENCY_LIMIT,
                           PushAll(tResults,
                                   [k \in 1..Cardinality(batch) |->
                                       [url |-> tUrls[tI + k],
                                        accessible |-> tValue[tI + k].accessible]]))
    /\ UNCHANGED << argv, exitReason, selectedFormats, allUrls, fontUrls, selectedFonts,
                    tUrls, tOutcome, tValue, dVars, fsVars, fs0 >>

(***************************************************************************)
(* downloadFontFiles.                                                      *)
(***************************************************************************)
unknown == <<"u", "n", "k", "n", "o", "w", "n">>

PendingDownload ==
    [kind |-> "pending", success |-> FALSE, filename |-> << >>, error |-> ""]

Outcome(success, filename, error) ==
    [kind |-> "fulfilled", success |-> success, filename |-> filename,
     error |-> error]

\* the body of a url is identified by the url
Body(u) == u

\* fs.writeFileSync(path.join(OUTPUT_DIR, filename), body): creates or overwrites
WriteFileKeepFirst(fileSet, filename, body) ==
    IF \E f \in fileSet : f.name = filename THEN fileSet
    ELSE fileSet \cup {[name |-> filename, content |-> body]}

WriteFile(fileSet, filename, body) ==
    {f \in fileSet : f.name # filename}
        \cup {[name |-> filename, content |-> body]}

\* the callback up to `await fetch(url)`: new URL throws, or the filename is
\* empty, or the request is issued
BeforeFetchNoFilenameCheck(u) == IF ~Parses(u) THEN "invalid" ELSE "fetch"

BeforeFetch(u) ==
    IF ~Parses(u) THEN "invalid"
    ELSE IF Filename(u) = << >> THEN "nofile"
    ELSE "fetch"

\* the value the callback's promise settles with, per outcome: the returns of
\* the try block, and the return of its catch for whatever threw
DownloadResultNoCatch(u, outcome) ==
    CASE outcome = "nofile" -> Outcome(FALSE, unknown, "No filename found")
      [] outcome = "status" -> Outcome(FALSE, Filename(u), "HTTP 404")
      [] outcome = "written" -> Outcome(TRUE, Filename(u), "")
      [] OTHER -> [kind |-> "rejected", success |-> FALSE, filename |-> << >>,
                   error |-> outcome]

DownloadResult(u, outcome) ==
    CASE outcome = "invalid" -> Outcome(FALSE, unknown, "Invalid URL")
      [] outcome = "nofile" -> Outcome(FALSE, unknown, "No filename found")
      [] outcome = "neterr" -> Outcome(FALSE, unknown, "fetch failed")
      [] outcome = "status" -> Outcome(FALSE, Filename(u), "HTTP 404")
      [] outcome = "bodyerr" -> Outcome(FALSE, unknown, "body failed")
      [] outcome = "writeerr" -> Outcome(FALSE, unknown, "write failed")
      [] outcome = "written" -> Outcome(TRUE, Filename(u), "")

\* the loop of downloadFontFiles from its head, with i and results as given
DownloadLoop(urls, i, results) ==
    /\ dI' = i
    /\ dResults' = results
    /\ IF i < Len(urls)
       THEN LET batch == SliceIndices(Len(urls), i, CONCURRENCY_LIMIT)
                fetching == {j \in batch : BeforeFetch(urls[j]) = "fetch"}
                oldState == IF i = 0 THEN [j \in 1..Len(urls) |-> "idle"] ELSE dState
                oldOutcome == IF i = 0 THEN [j \in 1..Len(urls) |-> "none"]
                              ELSE dOutcome
                oldValue == IF i = 0 THEN [j \in 1..Len(urls) |-> PendingDownload]
                            ELSE dValue
            IN /\ dState' = [j \in 1..Len(urls) |->
                                IF j \in fetching THEN "fetching"
                                ELSE IF j \in batch THEN "settled"
                                ELSE oldState[j]]
               /\ dOutcome' = [j \in 1..Len(urls) |->
                                  IF j \in batch \ fetching
                                  THEN BeforeFetch(urls[j]) ELSE oldOutcome[j]]
               /\ dValue' = [j \in 1..Len(urls) |->
                                IF j \in batch \ fetching
                                THEN DownloadResult(urls[j], BeforeFetch(urls[j]))
                                ELSE IF j \in batch THEN PendingDownload
                                ELSE oldValue[j]]
               /\ dStarts' = Bump(IF i = 0 THEN [j \in 1..Len(urls) |-> 0]
                                  ELSE dStarts, batch)
               /\ dChunks' = (IF i = 0 THEN 0 ELSE dChunks) + 1
               /\ netLog' = netLog \cup
                      {[method |-> "GET", url |-> urls[j]] : j \in fetching}
               /\ pc' = "download_await"
               /\ UNCHANGED exitReason
       ELSE /\ dState' = (IF i = 0 THEN << >> ELSE dState)
            /\ dOutcome' = (IF i = 0 THEN << >> ELSE dOutcome)
            /\ dValue' = (IF i = 0 THEN << >> ELSE dValue)
            /\ dStarts' = (IF i = 0 THEN << >> ELSE dStarts)
            /\ dChunks' = (IF i = 0 THEN 0 ELSE dChunks)
            /\ IF results = << >>
               THEN pc' = "exited" /\ exitReason' = "nothing_downloaded"
               ELSE pc' = "download_returned" /\ UNCHANGED exitReason
            /\ UNCHANGED netLog

\* downloadFontFiles(selectedFonts) up to its first await
DownloadCall ==
    /\ pc = "call_download"
    /\ dirExists' = TRUE
    /\ dUrls' = selectedFonts
    /\ DownloadLoop(selectedFonts, 0, << >>)
    /\ UNCHANGED << argv, pipeVars, tVars, files, writeLog, fs0 >>

\* `await fetch(url)` of item j ends: it throws, or answers with a status
DownloadFetchSettle(j, outcome) ==
    /\ pc = "download_await"
    /\ j \in 1..Len(dUrls)
    /\ dState[j] = "fetching"
    /\ outcome \in {"neterr", "status", "ok"}
    /\ IF outcome = "ok"
       THEN /\ dState' = [dState EXCEPT ![j] = "reading"]
            /\ UNCHANGED << dOutcome, dValue >>
       ELSE /\ dState' = [dState EXCEPT ![j] = "settled"]
            /\ dOutcome' = [dOutcome EXCEPT ![j] = outcome]
            /\ dValue' = [dValue EXCEPT ![j] = DownloadResult(dUrls[j], outcome)]
    /\ UNCHANGED << argv, pc, exitReason, pipeVars, tVars, dUrls, dI, dResults,
                    dStarts, dChunks, fsVars, fs0, netLog >>

\* `await response.arrayBuffer()` of item j ends: it throws, or the body is
\* there and fs.writeFileSync throws or writes it
DownloadBodySettle(j, outcome) ==
    /\ pc = "download_await"
    /\ j \in 1..Len(dUrls)
    /\ dState[j] = "reading"
    /\ outcome \in {"bodyerr", "writeerr", "written"}
    /\ dState' = [dState EXCEPT ![j] = "settled"]
    /\ dOutcome' = [dOutcome EXCEPT ![j] = outcome]
    /\ dValue' = [dValue EXCEPT ![j] = DownloadResult(dUrls[j], outcome)]
    /\ IF outcome = "written"
       THEN /\ files' = WriteFile(files, Filename(dUrls[j]), Body(dUrls[j]))
            /\ writeLog' = Append(writeLog, dUrls[j])
       ELSE UNCHANGED << files, writeLog >>
    /\ UNCHANGED << argv, pc, exitReason, pipeVars, tVars, dUrls, dI, dResults,
                    dStarts, dChunks, dirExists, fs0, netLog >>

\* the await of Promise.all ends: push the batch, advance i, next iteration
DownloadResume ==
    /\ pc = "download_await"
    /\ LET batch == SliceIndices(Len(dUrls), dI, CONCURRENCY_LIMIT)
           all == PromiseAll(dValue, batch)
       IN /\ all # "pending"
          /\ IF all = "rejected"
             THEN /\ pc' = "rejected"
                  /\ UNCHANGED << exitReason, dI, dResults, dState, dOutcome,
                                  dValue, dStarts, dChunks, netLog >>
             ELSE DownloadLoop(dUrls, dI + CONCURRENCY_LIMIT,
                               PushAll(dResults,
                                       [k \in 1..Cardinality(batch) |->
                                           dValue[dI + k]]))
    /\ UNCHANGED << argv, pipeVars, tVars, dUrls, fsVars, fs0 >>

(***************************************************************************)
(* init: the run of the pipeline. The target url is taken as given (-u).   *)
(***************************************************************************)
RECURSIVE SortedSeq(_)
\* Array.from(set).sort(): url ids are in the order of their hrefs
SortedSeq(S) ==
    IF S = {} THEN << >>
    ELSE LET m == CHOOSE x \in S : \A y \in S : x <= y
         IN <<m>> \o SortedSeq(S \ {m})

\* the lists a multiselect over `options` can answer with
SubSequences(options) ==
    {[k \in 1..Cardinality(T) |-> options[SortedSeq(T)[k]]] :
        T \in SUBSET (1..Len(options))}

\* the sequences without repetition over S, of length n at most
InjectiveSeqs(S, n) ==
    UNION {{q \in [1..k -> S] : \A a, b \in 1..k : a # b => q[a] # q[b]} :
              k \in 0..n}

Sequences(S, n) == UNION {[1..k -> S] : k \in 0..n}

NoRun ==
    /\ tUrls = << >> /\ tI = 0 /\ tState = << >> /\ tOutcome = << >>
    /\ tValue = << >> /\ tResults = << >> /\ tStarts = << >> /\ tChunks = 0
    /\ dUrls = << >> /\ dI = 0 /\ dState = << >> /\ dOutcome = << >>
    /\ dValue = << >> /\ dResults = << >> /\ dStarts = << >> /\ dChunks = 0
    /\ netLog = {} /\ writeLog = << >>
    /\ exitReason = "none"

\* OUTPUT_DIR before the run: absent, empty, or holding a file named x.WOFF2
InitFs ==
    /\ dirExists \in BOOLEAN
    /\ files \in (IF dirExists
                  THEN {{}, {[name |-> Filename(3), content |-> 0]}}
                  ELSE {{}})
    /\ fs0 = [dirExists |-> dirExists, files |-> files]

FormatArgs ==
    {[given |-> TRUE, names |-> <<"all">>],
     [given |-> TRUE, names |-> <<"woff2", "eot">>],
     [given |-> TRUE, names |-> <<"ttf", "bogus">>],
     [given |-> FALSE, names |-> << >>]}

Init ==
    /\ argv \in [help : BOOLEAN, formats : FormatArgs,
                 concurrency : ConcurrencyValues, blind : BOOLEAN]
    /\ pc = "init"
    /\ selectedFormats = << >>
    /\ allUrls = << >> /\ fontUrls = << >> /\ accessibleUrls = << >>
    /\ selectedFonts = << >>
    /\ NoRun
    /\ InitFs

Exit(reason) == pc' = "exited" /\ exitReason' = reason

\* init up to its first await: --help, --formats, then extractUrls' fetch
InitStart ==
    /\ pc = "init"
    /\ IF argv.help
       THEN /\ pc' = "returned" /\ exitReason' = "help"
            /\ UNCHANGED << selectedFormats, netLog >>
       ELSE IF argv.formats.given
       THEN IF \E k \in 1..Len(argv.formats.names) :
                   argv.formats.names[k] \notin validFormats
            THEN Exit("invalid_formats") /\ UNCHANGED << selectedFormats, netLog >>
            ELSE /\ selectedFormats' = argv.formats.names
                 /\ pc' = "extractUrls_fetch"
                 /\ netLog' = netLog \cup {[method |-> "GET", url |-> 0]}
                 /\ UNCHANGED exitReason
       ELSE /\ pc' = "prompt_formats"
            /\ UNCHANGED << exitReason, selectedFormats, netLog >>
    /\ UNCHANGED << argv, allUrls, fontUrls, accessibleUrls, selectedFonts,
                    tVars, dVars, fsVars, fs0 >>

\* the format multiselect answers: cancelled, or a list of format names
PromptFormats(cancelled, formatResult) ==
    /\ pc = "prompt_formats"
    /\ IF cancelled
       THEN /\ pc' = "returned" /\ exitReason' = "cancelled"
            /\ UNCHANGED << selectedFormats, netLog >>
       ELSE /\ selectedFormats' = formatResult
            /\ IF formatResult = << >>
               THEN Exit("no_formats") /\ UNCHANGED netLog
               ELSE /\ pc' = "extractUrls_fetch"
                    /\ netLog' = netLog \cup {[method |-> "GET", url |-> 0]}
                    /\ UNCHANGED exitReason
    /\ UNCHANGED << argv, allUrls, fontUrls, accessibleUrls, selectedFonts,
                    tVars, dVars, fsVars, fs0 >>

\* extractUrls' fetch ends: it throws or answers a non-ok status (exit 1), or
\* the page holds the urls `found`; then init filters them
ExtractUrlsSettle(outcome, found) ==
    /\ pc = "extractUrls_fetch"
    /\ outcome \in {"error", "status", "ok"}
    /\ IF outcome # "ok"
       THEN Exit("fetch_failed") /\ UNCHANGED << allUrls, fontUrls >>
       ELSE /\ allUrls' = SortedSeq(found)
            /\ fontUrls' = filterUrlsByExtension(allUrls', Extensions(selectedFormats))
            /\ IF fontUrls' = << >>
               THEN Exit("no_candidates")
               ELSE pc' = "call_testUrls" /\ UNCHANGED exitReason
    /\ UNCHANGED << argv, selectedFormats, accessibleUrls, selectedFonts,
                    tVars, dVars, fsVars, fs0, netLog >>

\* init after `await testUrls(fontUrls)`, up to the selection
InitAfterTest ==
    /\ pc = "testUrls_returned"
    /\ IF accessibleUrls = << >>
       THEN Exit("no_reachable") /\ UNCHANGED << dirExists, selectedFonts >>
       ELSE /\ dirExists' = TRUE
            /\ IF argv.blind
               THEN selectedFonts' = accessibleUrls /\ pc' = "call_download"
               ELSE pc' = "select_fonts" /\ UNCHANGED selectedFonts
            /\ UNCHANGED exitReason
    /\ UNCHANGED << argv, selectedFormats, allUrls, fontUrls, accessibleUrls,
                    tVars, dVars, files, writeLog, fs0, netLog >>

\* the font multiselect answers: cancelled, or some of the accessible urls
SelectFonts(cancelled, selection) ==
    /\ pc = "select_fonts"
    /\ IF cancelled
       THEN /\ pc' = "returned" /\ exitReason' = "cancelled"
            /\ UNCHANGED selectedFonts
       ELSE /\ selectedFonts' = selection
            /\ IF selection = << >>
               THEN Exit("none_selected")
               ELSE pc' = "call_download" /\ UNCHANGED exitReason
    /\ UNCHANGED << argv, selectedFormats, allUrls, fontUrls, accessibleUrls,
                    tVars, dVars, fsVars, fs0, netLog >>

\* init after `await downloadFontFiles(selectedFonts)`
InitOutro ==
    /\ pc = "download_returned"
    /\ pc' = "done"
    /\ UNCHANGED << argv, exitReason, pipeVars, tVars, dVars, fsVars, fs0, netLog >>

Next ==
    \/ InitStart
    \/ \E formatResult \in {<<"all">>, <<"eot">>, << >>} :
           PromptFormats(FALSE, formatResult)
    \/ PromptFormats(TRUE, << >>)
    \/ \E outcome \in {"error", "status"} : ExtractUrlsSettle(outcome, {})
    \/ \E found \in {S \in SUBSET AllUrlIds : Cardinality(S) <= MaxPageUrls} :
           ExtractUrlsSettle("ok", found)
    \/ TestUrlsCall
    \/ \E j \in 1..MaxPageUrls, outcome \in {"ok", "status", "error"} :
           TestSettle(j, outcome)
    \/ TestResume
    \/ InitAfterTest
    \/ \E selection \in SubSequences(accessibleUrls) : SelectFonts(FALSE, selection)
    \/ SelectFonts(TRUE, << >>)
    \/ DownloadCall
    \/ \E j \in 1..MaxPageUrls, outcome \in {"neterr", "status", "ok"} :
           DownloadFetchSettle(j, outcome)
    \/ \E j \in 1..MaxPageUrls, outcome \in {"bodyerr", "writeerr", "written"} :
           DownloadBodySettle(j, outcome)
    \/ DownloadResume
    \/ InitOutro

Spec == Init /\ [][Next]_vars

(***************************************************************************)
(* testUrls and downloadFontFiles on their own, on any list of distinct    *)
(* urls, under every value of --concurrency.                               *)
(***************************************************************************)
ExecInit ==
    /\ argv \in [help : {FALSE}, formats : {[given |-> TRUE, names |-> <<"all">>]},
                 concurrency : ConcurrencyValues, blind : {TRUE}]
    /\ selectedFormats = <<"all">>
    /\ allUrls = << >> /\ accessibleUrls = << >>
    /\ \E urls \in InjectiveSeqs(ExecUrlIds, MaxUrls) :
          \/ /\ pc = "call_testUrls" /\ fontUrls = urls /\ selectedFonts = << >>
             /\ dirExists = FALSE /\ files = {}
          \/ /\ pc = "call_download" /\ fontUrls = << >> /\ selectedFonts = urls
             /\ \/ dirExists = FALSE /\ files = {}
                \/ dirExists = TRUE /\ files = {[name |-> Filename(3), content |-> 0]}
    /\ fs0 = [dirExists |-> dirExists, files |-> files]
    /\ NoRun

ExecNext ==
    \/ TestUrlsCall
    \/ \E j \in 1..MaxUrls, outcome \in {"ok", "status", "error"} :
           TestSettle(j, outcome)
    \/ TestResume
    \/ DownloadCall
    \/ \E j \in 1..MaxUrls, outcome \in {"neterr", "status", "ok"} :
           DownloadFetchSettle(j, outcome)
    \/ \E j \in 1..MaxUrls, outcome \in {"bodyerr", "writeerr", "written"} :
           DownloadBodySettle(j, outcome)
    \/ DownloadResume

ExecSpec == ExecInit /\ [][ExecNext]_vars

(***************************************************************************)
(* filterUrlsByExtension on its own, on any list of urls, for each format. *)
(***************************************************************************)
FilterInit ==
    /\ argv \in [help : {FALSE}, formats : {[given |-> FALSE, names |-> << >>]},
                 concurrency : {[kind |-> "number", n |-> MriDefaultConcurrency]},
                 blind : {TRUE}]
    /\ pc = "call_filter"
    /\ selectedFormats = << >>
    /\ allUrls \in Sequences(AllUrlIds, MaxFilterUrls)
    /\ fontUrls = << >> /\ accessibleUrls = << >> /\ selectedFonts = << >>
    /\ NoRun
    /\ dirExists = FALSE /\ files = {} /\ fs0 = [dirExists |-> FALSE, files |-> {}]

\* filterUrlsByExtension(allUrls, the extensions of format formatName)
FilterCall(formatName) ==
    /\ pc = "call_filter"
    /\ selectedFormats' = <<formatName>>
    /\ fontUrls' = filterUrlsByExtension(allUrls, Extensions(<<formatName>>))
    /\ pc' = "filtered"
    /\ UNCHANGED << argv, exitReason, allUrls, accessibleUrls, selectedFonts,
                    tVars, dVars, fsVars, fs0, netLog >>

FilterNext == \E formatName \in validFormats : FilterCall(formatName)

FilterSpec == FilterInit /\ [][FilterNext]_vars

(***************************************************************************)
(* Properties.                                                             *)
(***************************************************************************)
InFlightProbes == {j \in 1..Len(tState) : tState[j] = "inflight"}
InFlightDownloads == {j \in 1..Len(dState) : dState[j] \in {"fetching", "reading"}}
ChunkOf(j) == (j - 1) \div CONCURRENCY_LIMIT
Ceil(n, d) == (n + d - 1) \div d
Indices(q) == 1..Len(q)

\* C1: at every instant of a batched run (testUrls, downloadFontFiles) at most
\* CONCURRENCY_LIMIT per-item operations have started and not yet settled.
C1_InFlightBounded ==
    /\ Cardinality(InFlightProbes) <= CONCURRENCY_LIMIT
    /\ Cardinality(InFlightDownloads) <= CONCURRENCY_LIMIT

\* a download batch that fills the limit while a later item still waits
C1_Witness ==
    /\ pc = "download_await"
    /\ Cardinality(InFlightDownloads) = CONCURRENCY_LIMIT
    /\ CONCURRENCY_LIMIT = 2
    /\ \E j \in Indices(dState) : dState[j] = "idle"

\* C2: no operation of a later chunk has started while an operation of an
\* earlier chunk has not settled, in either loop.
C2_ChunksSequential ==
    /\ \A a, b \in Indices(tState) :
           (ChunkOf(a) < ChunkOf(b) /\ tState[b] # "idle") => tState[a] = "settled"
    /\ \A a, b \in Indices(dState) :
           (ChunkOf(a) < ChunkOf(b) /\ dState[b] # "idle") => dState[a] = "settled"

\* the second chunk of a probe run is in flight after a first chunk of two
C2_Witness ==
    /\ pc = "testUrls_await"
    /\ CONCURRENCY_LIMIT = 2
    /\ tChunks = 2
    /\ tState = <<"settled", "settled", "inflight">>
    /\ tOutcome[1] # tOutcome[2]

\* C3: a batched run over n items returns n results, the one at index i being
\* that of the operation on item i.
C3_ResultsInOrder ==
    /\ pc = "testUrls_returned" =>
           /\ Len(tResults) = Len(tUrls)
           /\ \A i \in Indices(tUrls) :
                  /\ tResults[i].url = tUrls[i]
                  /\ tResults[i].accessible = (tOutcome[i] = "ok")
    /\ (pc = "download_returned" \/ exitReason = "nothing_downloaded") =>
           /\ Len(dResults) = Len(dUrls)
           /\ \A i \in Indices(dUrls) :
                  /\ dResults[i].success = (dOutcome[i] = "written")
                  /\ dResults[i].filename =
                         (IF dOutcome[i] \in {"written", "status"}
                          THEN Filename(dUrls[i]) ELSE unknown)

\* three downloads in one chunk, the second item's write before the first's
C3_Witness ==
    /\ pc = "download_returned"
    /\ Len(dUrls) = 3
    /\ CONCURRENCY_LIMIT > 2
    /\ dOutcome = <<"written", "written", "status">>
    /\ writeLog = <<dUrls[2], dUrls[1]>>

\* C4: a failing per-item operation settles its own promise with a
\* failure-shaped value, the batch never rejects, and at the return every item
\* has been run and has a result.
C4_FailuresContained ==
    /\ pc # "rejected"
    /\ \A j \in Indices(tUrls) :
           (tState[j] = "settled" /\ tOutcome[j] # "ok") =>
               tValue[j] = [kind |-> "fulfilled", accessible |-> FALSE]
    /\ \A j \in Indices(dUrls) :
           (dState[j] = "settled" /\ dOutcome[j] # "written") =>
               (dValue[j].kind = "fulfilled" /\ ~dValue[j].success)
    /\ pc = "testUrls_returned" =>
           /\ Len(tResults) = Len(tUrls)
           /\ \A j \in Indices(tUrls) : tStarts[j] >= 1 /\ tOutcome[j] # "none"
    /\ pc = "download_returned" =>
           /\ Len(dResults) = Len(dUrls)
           /\ \A j \in Indices(dUrls) : dStarts[j] >= 1 /\ dOutcome[j] # "none"

\* a url that does not parse and a failed write, each followed by a download
\* that succeeds, in a run of two chunks
C4_Witness ==
    /\ pc = "download_returned"
    /\ CONCURRENCY_LIMIT = 2
    /\ dOutcome = <<"invalid", "writeerr", "written">>
    /\ dResults[3].success

\* C5: testUrls returns the input urls whose HEAD request answered a success
\* status, in input order, and nothing else.
C5_ProbeExact ==
    pc = "testUrls_returned" =>
        LET ok == SortedSeq({j \in Indices(tUrls) : tOutcome[j] = "ok"})
        IN accessibleUrls = [k \in 1..Len(ok) |-> tUrls[ok[k]]]

\* a probe run where one url answers ok, one a failure status, one not at all
C5_Witness ==
    /\ pc = "testUrls_returned"
    /\ \E i, j, k \in Indices(tUrls) :
           tOutcome[i] = "status" /\ tOutcome[j] = "ok" /\ tOutcome[k] = "error"
    /\ Len(accessibleUrls) = 1

NoFilenameItems ==
    {j \in Indices(dUrls) :
        dStarts[j] >= 1 /\ Parses(dUrls[j]) /\ Filename(dUrls[j]) = << >>}

Untouched(u) ==
    /\ [method |-> "GET", url |-> u] \notin netLog
    /\ \A k \in Indices(writeLog) : writeLog[k] # u

\* C6 (as amended): a url whose path ends in "/" gets the outcome
\* {success: false, filename: "unknown", error: "No filename found"}, and
\* neither a request nor a write is made for it.
C6_NoFilename ==
    \A j \in NoFilenameItems :
        /\ dValue[j] = Outcome(FALSE, unknown, "No filename found")
        /\ Untouched(dUrls[j])

\* C6 as stated: the error of that outcome is "no filename found".
C6_AsStated ==
    \A j \in NoFilenameItems :
        /\ dValue[j] = Outcome(FALSE, unknown, "no filename found")
        /\ Untouched(dUrls[j])

\* a finished download run with a url ending in "/" beside one that was written
C6_Witness ==
    /\ pc = "download_returned"
    /\ NoFilenameItems # {}
    /\ writeLog # << >>

FatalAborts == {"fetch_failed", "no_candidates", "no_reachable", "none_selected"}

\* C7: on a fatal abort the Retriever has not run and the file system is as
\* it was at the start of the run.
C7_AbortLeavesNoTrace ==
    (pc = "exited" /\ exitReason \in FatalAborts) =>
        /\ dChunks = 0 /\ dUrls = << >>
        /\ dirExists = fs0.dirExists
        /\ files = fs0.files

SameNameWritten ==
    {p \in Indices(dUrls) \X Indices(dUrls) :
        /\ p[1] # p[2]
        /\ Filename(dUrls[p[1]]) = Filename(dUrls[p[2]])
        /\ dOutcome[p[1]] = "written" /\ dOutcome[p[2]] = "written"}

LastWriterOf(name) ==
    LET ks == {k \in Indices(writeLog) : Filename(writeLog[k]) = name}
    IN writeLog[CHOOSE k \in ks : \A m \in ks : m <= k]

\* C8: once two urls with the same final path segment have both been fetched
\* and written, one file of that name exists, it holds the body written last,
\* and both outcomes report success.
C8_LastWriterWins ==
    \A p \in SameNameWritten :
        LET name == Filename(dUrls[p[1]])
            named == {f \in files : f.name = name}
        IN /\ Cardinality(named) = 1
           /\ \A f \in named : f.content = Body(LastWriterOf(name))
           /\ dValue[p[1]].success /\ dValue[p[2]].success

\* both x.WOFF2 urls written over a file of that name, the later item first
C8_Witness ==
    /\ pc = "download_returned"
    /\ fs0.files # {}
    /\ \E p \in SameNameWritten :
           /\ p[1] < p[2]
           /\ writeLog = <<dUrls[p[2]], dUrls[p[1]]>>
           /\ [name |-> Filename(dUrls[p[1]]), content |-> Body(dUrls[p[1]])] \in files

IndividualFormats == {"woff2", "woff", "ttf", "otf", "eot"}

\* the final segment of u's path ends, whatever the case, with "." then ext
EndsWithDotExt(u, ext) ==
    /\ Parses(u)
    /\ LET seg == LastSegment(Pathname(u))
           n == Len(seg)
           m == Len(ext)
       IN /\ n >= m + 1
          /\ seg[n - m] = "."
          /\ \A k \in 1..m : LowerChar(seg[n - m + k]) = LowerChar(ext[k])

ExtSet(formatNames) ==
    LET exts == Extensions(formatNames) IN {exts[k] : k \in Indices(exts)}

\* C9: filtering with the extensions of "all" gives the urls, in order, that
\* filtering with some single format keeps; and a filter keeps a url iff its
\* final path segment ends, whatever the case, with "." + a requested
\* extension, a url that does not parse being dropped.
C9_AllIsUnion ==
    /\ filterUrlsByExtension(allUrls, FormatExtensions("all")) =
           SelectSeq(allUrls,
               LAMBDA u : \E name \in IndividualFormats :
                   LET kept == filterUrlsByExtension(allUrls, FormatExtensions(name))
                   IN \E k \in Indices(kept) : kept[k] = u)
    /\ pc = "filtered" =>
           fontUrls = SelectSeq(allUrls,
               LAMBDA u : \E ext \in ExtSet(selectedFormats) : EndsWithDotExt(u, ext))

\* "all" keeps .Eot and drops the url that does not parse
C9_Witness ==
    /\ pc = "filtered"
    /\ selectedFormats = <<"all">>
    /\ allUrls = <<7, 1>>
    /\ fontUrls = <<7>>

ProbeRunning == pc \in {"call_testUrls", "testUrls_await"}
DownloadRunning == pc \in {"call_download", "download_await"}

\* C10: CONCURRENCY_LIMIT is an integer >= 1 whatever --concurrency is; a
\* batched run never stops before its end, starts no item twice, and ends
\* after ceil(n / limit) chunks with every item started once.
C10_LimitAndChunks ==
    /\ CONCURRENCY_LIMIT \in Nat /\ CONCURRENCY_LIMIT >= 1
    /\ (ProbeRunning \/ DownloadRunning) => ENABLED ExecNext
    /\ \A j \in Indices(tStarts) : tStarts[j] <= 1
    /\ \A j \in Indices(dStarts) : dStarts[j] <= 1
    /\ pc = "testUrls_returned" =>
           /\ tChunks = Ceil(Len(tUrls), CONCURRENCY_LIMIT)
           /\ Len(tStarts) = Len(tUrls)
           /\ \A j \in Indices(tUrls) : tStarts[j] = 1
    /\ (pc = "download_returned" \/ exitReason = "nothing_downloaded") =>
           /\ dChunks = Ceil(Len(dUrls), CONCURRENCY_LIMIT)
           /\ Len(dStarts) = Len(dUrls)
           /\ \A j \in Indices(dUrls) : dStarts[j] = 1

\* --concurrency -1: three urls downloaded in three chunks of one
C10_Witness ==
    /\ pc = "download_returned"
    /\ argv.concurrency = [kind |-> "number", n |-> -1]
    /\ Len(dUrls) = 3
    /\ dChunks = 3

====
